---------------------------- MODULE Spec2Model ----------------------------
(***************************************************************************)
(* backup_utility.c: a command-line file copier.  main checks argc, then   *)
(* backup_file opens the source "rb", opens the destination "wb", moves    *)
(* the bytes through a 1024-byte buffer with fread/fwrite, closes both     *)
(* streams and returns; main prints the success message and returns 0.     *)
(*                                                                         *)
(* The file system is a map from paths to files.  The C library calls are  *)
(* modelled by their contract: fopen may fail, fread and fwrite may return *)
(* a short count with the stream's error indicator set.                    *)
(***************************************************************************)
EXTENDS Integers, Sequences, FiniteSets

\* ---------------------------------------------------------------- constants
\* sizeof(buffer)
BUFSIZE == 1024
EXIT_SUCCESS == 0
EXIT_FAILURE == 1

\* ------------------------------------------------------------------- bounds
\* Source files hold up to MaxChunks full buffers plus one byte.
MaxChunks == 2
\* At most MaxFaults fread/fwrite calls of one run report an error.
MaxFaults == 1

Paths == {"a", "b"}
Argcs == 1..4

\* A buffer cell that was never filled by fread.
Uninit == 256

Min(x, y) == IF x < y THEN x ELSE y

\* File lengths around the buffer boundaries: 0, 1, and k*1024-1, k*1024,
\* k*1024+1 for every k up to MaxChunks.
Lens == {0, 1} \cup { k * BUFSIZE + d : k \in 1..MaxChunks, d \in {-1, 0, 1} }

Seed(p) == IF p = "a" THEN 1 ELSE 2

\* Contents that differ from position to position, from buffer to buffer
\* (251 is prime, so the pattern does not repeat every 1024 bytes) and from
\* file to file.
Content(p, len) == [ i \in 1..len |-> (i * (2 * Seed(p) + 1) + Seed(p)) % 251 ]

VARIABLES
    pc,           \* position in main / backup_file
    argc,         \* main's argc
    source,       \* argv[1]
    destination,  \* argv[2]
    exists,       \* file system: path -> the file exists
    data,         \* file system: path -> the file's bytes
    srcFile,      \* "unset", "NULL", "open", "closed"
    destFile,     \* "unset", "NULL", "open", "closed"
    srcPos,       \* file position of srcFile
    destPos,      \* file position of destFile
    srcErr,       \* error indicator of srcFile
    destErr,      \* error indicator of destFile
    buffer,       \* char buffer[1024]
    bytesRead,    \* size_t bytesRead
    out,          \* stdout: the success message was printed
    err,          \* stderr: "none", "usage", "source", "destination"
    exitStatus,   \* the process's exit status, -1 while it runs
    exists0,      \* history: the file system when the process started
    data0,        \* history: the file system when the process started
    calls,        \* history: number of fopen/fread/fwrite/fclose calls
    totalRead,    \* history: bytes fread returned
    totalWritten, \* history: bytes fwrite accepted
    faults        \* history: fread/fwrite calls that reported an error

vars == << pc, argc, source, destination, exists, data, srcFile, destFile,
           srcPos, destPos, srcErr, destErr, buffer, bytesRead, out, err,
           exitStatus, exists0, data0, calls, totalRead, totalWritten, faults >>

fsVars == << exists, data >>
streamVars == << srcFile, destFile, srcPos, destPos, srcErr, destErr >>
loopVars == << buffer, bytesRead, totalRead, totalWritten, faults >>
histVars == << argc, source, destination, exists0, data0 >>

NoCalls == [ fopenSrc |-> 0, fopenDest |-> 0, fread |-> 0, fwrite |-> 0,
             fcloseSrc |-> 0, fcloseDest |-> 0 ]

Bump(c, f) == [ c EXCEPT ![f] = @ + 1 ]

Init ==
    /\ pc = "main"
    /\ argc \in Argcs
    /\ source \in Paths
    /\ destination \in Paths
    /\ exists \in [ Paths -> BOOLEAN ]
    /\ \E len \in [ Paths -> Lens ] :
          data = [ p \in Paths |-> IF exists[p] THEN Content(p, len[p]) ELSE << >> ]
    /\ srcFile = "unset"
    /\ destFile = "unset"
    /\ srcPos = 0
    /\ destPos = 0
    /\ srcErr = FALSE
    /\ destErr = FALSE
    /\ buffer = [ i \in 1..BUFSIZE |-> Uninit ]
    /\ bytesRead = 0
    /\ out = FALSE
    /\ err = "none"
    /\ exitStatus = -1
    /\ exists0 = exists
    /\ data0 = data
    /\ calls = NoCalls
    /\ totalRead = 0
    /\ totalWritten = 0
    /\ faults = 0

\* ------------------------------------------------------------------- main
\* Faulty variant of the argument test: only too few arguments are rejected.
ArgcOk_AtLeast(n) == n >= 3

\* if (argc != 3)
ArgcOk(n) == n = 3

\* main, lines 37-40: wrong argument count.
MainUsage ==
    /\ pc = "main"
    /\ ~ArgcOk(argc)
    /\ err' = "usage"
    /\ exitStatus' = EXIT_FAILURE
    /\ pc' = "exited"
    /\ UNCHANGED << fsVars, streamVars, loopVars, histVars, out, calls >>

\* main, line 42: call backup_file(argv[1], argv[2]).
MainCall ==
    /\ pc = "main"
    /\ ArgcOk(argc)
    /\ pc' = "fopen_src"
    /\ UNCHANGED << fsVars, streamVars, loopVars, histVars, out, err,
                    exitStatus, calls >>

\* ------------------------------------------------------------ backup_file
\* fopen(source, "rb") returns a stream: the file exists (and is readable).
FopenSrcOk ==
    /\ pc = "fopen_src"
    /\ exists[source]
    /\ srcFile' = "open"
    /\ srcPos' = 0
    /\ calls' = Bump(calls, "fopenSrc")
    /\ pc' = "fopen_dest"
    /\ UNCHANGED << fsVars, destFile, destPos, srcErr, destErr, loopVars,
                    histVars, out, err, exitStatus >>

\* Faulty variant of FopenSrcFail: the exit is missing and backup_file
\* carries on with the destination.
FopenSrcFail_NoExit ==
    /\ pc = "fopen_src"
    /\ srcFile' = "NULL"
    /\ calls' = Bump(calls, "fopenSrc")
    /\ err' = "source"
    /\ pc' = "fopen_dest"
    /\ UNCHANGED << fsVars, destFile, srcPos, destPos, srcErr, destErr,
                    loopVars, histVars, out, exitStatus >>

\* fopen(source, "rb") returns NULL (missing file, or permission denied on
\* an existing one): perror, exit(EXIT_FAILURE).
FopenSrcFail ==
    /\ pc = "fopen_src"
    /\ srcFile' = "NULL"
    /\ calls' = Bump(calls, "fopenSrc")
    /\ err' = "source"
    /\ exitStatus' = EXIT_FAILURE
    /\ pc' = "exited"
    /\ UNCHANGED << fsVars, destFile, srcPos, destPos, srcErr, destErr,
                    loopVars, histVars, out >>

\* Faulty variant of the open mode: the old content is kept ("r+b").
OpenWriteData_Keep(old) == old

\* The file fopen(destination, "wb") leaves behind: created or truncated.
OpenWriteData(old) == << >>

\* fopen(destination, "wb") returns a stream.
FopenDestOk ==
    /\ pc = "fopen_dest"
    /\ exists' = [ exists EXCEPT ![destination] = TRUE ]
    /\ data' = [ data EXCEPT ![destination] = OpenWriteData(@) ]
    /\ destFile' = "open"
    /\ destPos' = 0
    /\ calls' = Bump(calls, "fopenDest")
    /\ pc' = "fread"
    /\ UNCHANGED << srcFile, srcPos, srcErr, destErr, loopVars, histVars,
                    out, err, exitStatus >>

\* Faulty variant of FopenDestFail: the source stream is not closed.
FopenDestFail_NoClose ==
    /\ pc = "fopen_dest"
    /\ destFile' = "NULL"
    /\ calls' = Bump(calls, "fopenDest")
    /\ err' = "destination"
    /\ exitStatus' = EXIT_FAILURE
    /\ pc' = "exited"
    /\ UNCHANGED << fsVars, srcFile, srcPos, destPos, srcErr, destErr,
                    loopVars, histVars, out >>

\* Faulty variant of FopenDestFail: the exit is missing and the copy loop
\* is entered.
FopenDestFail_NoExit ==
    /\ pc = "fopen_dest"
    /\ destFile' = "NULL"
    /\ srcFile' = "closed"
    /\ calls' = Bump(Bump(calls, "fopenDest"), "fcloseSrc")
    /\ err' = "destination"
    /\ pc' = "fread"
    /\ UNCHANGED << fsVars, srcPos, destPos, srcErr, destErr, loopVars,
                    histVars, out, exitStatus >>

\* fopen(destination, "wb") returns NULL (missing directory, permission
\* denied): perror, fclose(srcFile), exit(EXIT_FAILURE).
FopenDestFail ==
    /\ pc = "fopen_dest"
    /\ destFile' = "NULL"
    /\ srcFile' = "closed"
    /\ calls' = Bump(Bump(calls, "fopenDest"), "fcloseSrc")
    /\ err' = "destination"
    /\ exitStatus' = EXIT_FAILURE
    /\ pc' = "exited"
    /\ UNCHANGED << fsVars, srcPos, destPos, srcErr, destErr, loopVars,
                    histVars, out >>

\* The counts a failing fread or fwrite of `want` bytes may return.
ShortCounts(want) == IF want = 0 THEN {0} ELSE {0, want \div 2}

\* fread(buffer, 1, sizeof(buffer), srcFile) stores n bytes at the start of
\* the buffer and leaves the rest of it alone.
FillBuffer(buf, chunk) == chunk \o SubSeq(buf, Len(chunk) + 1, Len(buf))

\* The bytes of file f from position pos, n of them.
FileBytes(f, pos, n) == SubSeq(f, pos + 1, pos + n)

\* while ((bytesRead = fread(...)) > 0)
LoopContinues(n) == n > 0

\* Line 28: one fread and the loop test.
Fread ==
    /\ pc = "fread"
    /\ LET avail == IF Len(data[source]) > srcPos
                    THEN Len(data[source]) - srcPos ELSE 0
           want == Min(BUFSIZE, avail)
       IN \E failed \in BOOLEAN :
          \E n \in (IF failed THEN ShortCounts(want) ELSE {want}) :
             /\ failed => faults < MaxFaults
             /\ bytesRead' = n
             /\ buffer' = FillBuffer(buffer, FileBytes(data[source], srcPos, n))
             /\ srcPos' = srcPos + n
             /\ srcErr' = (srcErr \/ failed)
             /\ faults' = IF failed THEN faults + 1 ELSE faults
             /\ totalRead' = totalRead + n
             /\ pc' = IF LoopContinues(n) THEN "fwrite" ELSE "fclose_src"
    /\ calls' = Bump(calls, "fread")
    /\ UNCHANGED << fsVars, srcFile, destFile, destPos, destErr,
                    totalWritten, histVars, out, err, exitStatus >>

\* Faulty variant of the write size: the whole buffer, sizeof(buffer).
WriteCount_Whole(n) == BUFSIZE

\* The number of bytes line 29 asks fwrite to write.
WriteCount(n) == n

\* File f after writing `bytes` at position pos.
WriteAt(f, pos, bytes) ==
    SubSeq(f, 1, pos) \o bytes \o SubSeq(f, pos + Len(bytes) + 1, Len(f))

\* Line 29: fwrite(buffer, 1, bytesRead, destFile); its result is dropped.
Fwrite ==
    /\ pc = "fwrite"
    /\ LET want == WriteCount(bytesRead)
       IN \E failed \in BOOLEAN :
          \E n \in (IF failed THEN ShortCounts(want) ELSE {want}) :
             /\ failed => faults < MaxFaults
             /\ data' = [ data EXCEPT ![destination] =
                             WriteAt(@, destPos, SubSeq(buffer, 1, n)) ]
             /\ destPos' = destPos + n
             /\ destErr' = (destErr \/ failed)
             /\ faults' = IF failed THEN faults + 1 ELSE faults
             /\ totalWritten' = totalWritten + n
    /\ calls' = Bump(calls, "fwrite")
    /\ pc' = "fread"
    /\ UNCHANGED << exists, srcFile, destFile, srcPos, srcErr, buffer,
                    bytesRead, totalRead, histVars, out, err, exitStatus >>

\* Line 32: fclose(srcFile).
FcloseSrc ==
    /\ pc = "fclose_src"
    /\ srcFile' = "closed"
    /\ calls' = Bump(calls, "fcloseSrc")
    /\ pc' = "fclose_dest"
    /\ UNCHANGED << fsVars, destFile, srcPos, destPos, srcErr, destErr,
                    loopVars, histVars, out, err, exitStatus >>

\* Faulty variant of FcloseDest: the destination stream is left open.
FcloseDest_Skip ==
    /\ pc = "fclose_dest"
    /\ pc' = "returned"
    /\ UNCHANGED << fsVars, streamVars, loopVars, histVars, out, err,
                    exitStatus, calls >>

\* Line 33: fclose(destFile); backup_file returns.
FcloseDest ==
    /\ pc = "fclose_dest"
    /\ destFile' = "closed"
    /\ calls' = Bump(calls, "fcloseDest")
    /\ pc' = "returned"
    /\ UNCHANGED << fsVars, srcFile, srcPos, destPos, srcErr, destErr,
                    loopVars, histVars, out, err, exitStatus >>

\* main, lines 43-44: print the success message, return EXIT_SUCCESS.
MainSuccess ==
    /\ pc = "returned"
    /\ out' = TRUE
    /\ exitStatus' = EXIT_SUCCESS
    /\ pc' = "exited"
    /\ UNCHANGED << fsVars, streamVars, loopVars, histVars, err, calls >>

Next ==
    \/ MainUsage
    \/ MainCall
    \/ FopenSrcOk
    \/ FopenSrcFail
    \/ FopenDestOk
    \/ FopenDestFail
    \/ Fread
    \/ Fwrite
    \/ FcloseSrc
    \/ FcloseDest
    \/ MainSuccess

Spec == Init /\ [][Next]_vars

TypeOK ==
    /\ pc \in {"main", "fopen_src", "fopen_dest", "fread", "fwrite",
               "fclose_src", "fclose_dest", "returned", "exited"}
    /\ srcFile \in {"unset", "NULL", "open", "closed"}
    /\ destFile \in {"unset", "NULL", "open", "closed"}
    /\ bytesRead \in 0..BUFSIZE
    /\ Len(buffer) = BUFSIZE
    /\ exitStatus \in {-1, EXIT_SUCCESS, EXIT_FAILURE}

\* ------------------------------------------------------------------ claims
Exited == pc = "exited"

\* backup_file ran to completion: both streams were opened and closed.
Completed == pc \in {"returned", "exited"} /\ destFile = "closed"

\* The process reported success and neither stream's error indicator is set.
SuccessfulCopy ==
    Exited /\ exitStatus = EXIT_SUCCESS /\ ~srcErr /\ ~destErr

FsUnchanged == exists = exists0 /\ data = data0

\* C1: whenever backup_file runs to completion with both opens succeeding,
\* the destination is byte-identical to the source as it was, and has its
\* size N.
C1_RoundTrip ==
    Completed =>
        /\ data[destination] = data0[source]
        /\ Len(data[destination]) = Len(data0[source])

\* The part of C1 the code does keep: distinct paths, no fread/fwrite error.
RoundTripErrorFree ==
    (Completed /\ faults = 0 /\ source # destination) =>
        data[destination] = data0[source]

\* C2: when opening the source fails, the process has exited with status 1,
\* the destination was never opened, the file system is as it was (no
\* destination created, an existing one untouched), and nothing was printed
\* on stdout.
C2_SourceOpenFailure ==
    srcFile = "NULL" =>
        /\ Exited
        /\ exitStatus = EXIT_FAILURE
        /\ err = "source"
        /\ destFile = "unset"
        /\ calls.fopenDest = 0
        /\ FsUnchanged
        /\ ~out

C2_Witness ==
    /\ Exited
    /\ srcFile = "NULL"
    /\ source # destination
    /\ exists0[destination]
    /\ Len(data0[destination]) > BUFSIZE

\* C3: when the source opens and opening the destination fails, the process
\* has exited with status 1, the source stream was closed (once), no fread
\* or fwrite was called, the file system (the source file included) is as it
\* was, and nothing was printed on stdout.
C3_DestOpenFailure ==
    destFile = "NULL" =>
        /\ Exited
        /\ exitStatus = EXIT_FAILURE
        /\ err = "destination"
        /\ srcFile = "closed"
        /\ calls.fcloseSrc = 1
        /\ calls.fread = 0
        /\ calls.fwrite = 0
        /\ FsUnchanged
        /\ ~out

C3_Witness ==
    /\ Exited
    /\ destFile = "NULL"
    /\ source # destination
    /\ Len(data0[source]) > BUFSIZE

\* C4: with any argument count other than two positional arguments
\* (argc # 3), main prints the usage message and exits non-zero without any
\* file I/O: no fopen, fread, fwrite or fclose, no stream, the file system
\* as it was.
C4_ArgumentValidation ==
    (argc # 3 /\ pc # "main") =>
        /\ Exited
        /\ err = "usage"
        /\ exitStatus # EXIT_SUCCESS
        /\ calls = NoCalls
        /\ srcFile = "unset"
        /\ destFile = "unset"
        /\ FsUnchanged
        /\ ~out

C4_Witness ==
    /\ Exited
    /\ argc = 4
    /\ exists0[source]
    /\ exists0[destination]
    /\ Len(data0[source]) > 0

\* C5: a run in which an fread or an fwrite failed ends as a failure:
\* non-zero exit status and no success message.
C5_IoFailureSurfaced ==
    (Exited /\ (srcErr \/ destErr)) => (exitStatus # EXIT_SUCCESS /\ ~out)

\* C6: when the copy loop has terminated, the bytes written to the
\* destination are as many as the bytes read from the source.
C6_ByteCount ==
    pc = "fclose_src" => totalWritten = totalRead

\* C7: the destination is truncated to empty when it is opened, before the
\* first write; from then on it holds exactly the bytes fwrite accepted
\* (nothing is appended to old content); after a successful copy its length
\* is the source's length and it holds the source's bytes, none of the old
\* ones.
C7_Overwrite ==
    /\ (destFile = "open" /\ calls.fwrite = 0) => data[destination] = << >>
    /\ destFile \in {"open", "closed"} =>
          /\ Len(data[destination]) = totalWritten
          /\ destPos = totalWritten
    /\ SuccessfulCopy =>
          /\ Len(data[destination]) = Len(data[source])
          /\ source # destination => data[destination] = data0[source]

C7_Witness ==
    /\ SuccessfulCopy
    /\ source # destination
    /\ exists0[destination]
    /\ Len(data0[source]) > 0
    /\ Len(data0[destination]) > Len(data0[source])

\* C8: in every terminal state no stream is still open; a stream is closed
\* exactly once if it was opened and never otherwise.
C8_HandlesReleased ==
    /\ Exited => (srcFile # "open" /\ destFile # "open")
    /\ calls.fcloseSrc = (IF srcFile = "closed" THEN 1 ELSE 0)
    /\ calls.fcloseDest = (IF destFile = "closed" THEN 1 ELSE 0)
    /\ srcFile = "closed" => calls.fopenSrc = 1
    /\ destFile = "closed" => calls.fopenDest = 1

C8_Witness ==
    /\ Exited
    /\ srcFile = "closed"
    /\ destFile = "closed"
    /\ faults > 0

\* The phases of the copy: 0 Init, 1 SourceOpen, 2 DestOpen, 3 Copying,
\* 4 Done, 5 Failed.
Phase ==
    CASE pc \in {"main", "fopen_src"}       -> 0
      [] pc = "fopen_dest"                  -> 1
      [] pc = "fread" /\ calls.fread = 0    -> 2
      [] pc \in {"fread", "fwrite", "fclose_src", "fclose_dest"}
                                            -> 3
      [] pc = "returned"                    -> 4
      [] Exited /\ exitStatus = EXIT_SUCCESS -> 4
      [] OTHER                              -> 5

FileOp == calls' # calls \/ exists' # exists \/ data' # data

\* C9: every step keeps the phase, moves it one phase forward or enters
\* Failed; the destination is opened only with the source open; fread and
\* fwrite are called only with both streams open; after Done or Failed there
\* is no file operation and no phase change; the success message is printed
\* only in Done.
C9_PhaseOrder ==
    [][ /\ Phase' \in {Phase, Phase + 1, 5}
        /\ Phase >= 4 => (Phase' = Phase /\ ~FileOp)
        /\ ~Exited
        /\ calls'.fopenDest # calls.fopenDest => srcFile = "open"
        /\ (calls'.fread # calls.fread \/ calls'.fwrite # calls.fwrite) =>
              (srcFile = "open" /\ destFile = "open")
        /\ (out' /\ ~out) => (Phase = 4 /\ Phase' = 4)
      ]_vars

C9_Witness ==
    /\ Exited
    /\ exitStatus = EXIT_SUCCESS
    /\ out
    /\ calls.fwrite > 1

\* C10: every fread returns at most 1024 bytes, a non-zero read is followed
\* by the fwrite of exactly those bytes before the next fread, and the loop
\* ends at the first fread returning zero.  In a run without fread/fwrite
\* errors the destination is, at every loop head, the prefix of the source
\* that has been consumed.
C10_LoopPrefix ==
    /\ bytesRead <= BUFSIZE
    /\ pc = "fwrite" => (bytesRead > 0 /\ calls.fread = calls.fwrite + 1)
    /\ pc = "fread" => calls.fread = calls.fwrite
    /\ pc \in {"fclose_src", "fclose_dest", "returned"} =>
          (bytesRead = 0 /\ calls.fread = calls.fwrite + 1)
    /\ faults = 0 =>
          /\ pc \in {"fread", "fclose_src"} =>
                /\ data[destination] = SubSeq(data[source], 1, srcPos)
                /\ Len(data[destination]) = srcPos
                /\ srcPos = totalRead
          /\ pc = "fwrite" =>
                data[destination] \o SubSeq(buffer, 1, bytesRead)
                    = SubSeq(data[source], 1, srcPos)

C10_Witness ==
    /\ pc = "fread"
    /\ faults = 0
    /\ calls.fwrite = 2
    /\ srcPos = 2 * BUFSIZE
    /\ Len(data[source]) > srcPos
=============================================================================
